---- MODULE Spec2Model ----
(***************************************************************************)
(* A model of the personal finance tracker: the transaction store          *)
(* (main.py, FinanceTracker), the budget ledger (budget_manager.py,        *)
(* BudgetManager) and the health scorer (utils.py).                        *)
(*                                                                         *)
(* Amounts are Python floats in the source.  The model uses integers, one  *)
(* unit being an amount of money that floats add and subtract exactly      *)
(* (whole dollars, or tens of dollars).  A quotient such as                *)
(* spent / limit * 100 is kept as the exact fraction <<num, den>> and is   *)
(* compared with a threshold by cross-multiplication; for every value in   *)
(* the ranges used here the float computation of the source and the exact  *)
(* one select the same branch.                                             *)
(***************************************************************************)
EXTENDS Integers, Sequences, FiniteSets, TLC

VARIABLES
    transactions,   \* FinanceTracker.transactions: the list of Transaction
    categories,     \* BudgetManager.categories: the dict, in insertion order
    today,          \* what datetime.date.today() returns: [year, month]
    requested,      \* the (year, month) of the last update_spending call, if any
    repeated,       \* update_spending calls in a row, with no other call on
                    \* the ledger between them, that had the same arguments:
                    \* 0 for none, 1 for one, 2 for two or more
    ret             \* the last call: its name, arguments, exception and value

vars == <<transactions, categories, today, requested, repeated, ret>>

----------------------------------------------------------------------------
(* Bounds of the model.                                                    *)

MaxTx == 2          \* transactions in the store (Spec)
MaxStoreTx == 3     \* transactions in the store (SpecStore)
StartYear == 2024   \* the clock starts in December of StartYear
MaxMonths == 1      \* months the clock may advance
MaxCats == 3        \* categories of a loaded ledger (SpecLedger)
MaxIncome == 20     \* the health scorer's inputs (SpecHealth): income in
MaxExpenses == 20   \* 0..MaxIncome, expenses in -1..MaxExpenses, savings
MaxSavings == 20    \* in -1..MaxSavings

CategoryNames == {"Food", "Rent"}
Amounts == {-1, 1}         \* add_transaction takes any number
StoreAmounts == {-1, 2}
Limits == {0, 1}           \* and so does set_category_budget
Years == StartYear..(StartYear + 1)
Months == {1, 12}

----------------------------------------------------------------------------
(* TransactionType and Transaction (main.py).                              *)

INCOME == "income"
EXPENSE == "expense"
TransactionType == {INCOME, EXPENSE}

Transaction(amount, category, description, date, transaction_type) ==
    [amount |-> amount, category |-> category, description |-> description,
     date |-> date, transaction_type |-> transaction_type]

(* BudgetCategory (budget_manager.py); current_spent defaults to 0.0.      *)
BudgetCategory(name, monthly_limit) ==
    [name |-> name, monthly_limit |-> monthly_limit, current_spent |-> 0]

(* datetime.date, reduced to the two fields the program reads.             *)
Date(year, month) == [year |-> year, month |-> month]

NextMonth(d) ==
    IF d.month = 12 THEN Date(d.year + 1, 1) ELSE Date(d.year, d.month + 1)

Elapsed(d) == (d.year - StartYear) * 12 + d.month - 12

----------------------------------------------------------------------------
(* What a call hands back to its caller: a value, or an exception.         *)

None == <<>>
Returned(op, args, value) ==
    [op |-> op, args |-> args, raised |-> "", value |-> value]
Raised(op, args, exception) ==
    [op |-> op, args |-> args, raised |-> exception, value |-> None]

----------------------------------------------------------------------------
(* The keys of the categories dict.                                        *)

Names(cats) == {cats[i].name : i \in 1..Len(cats)}

----------------------------------------------------------------------------
(* BudgetManager.set_category_budget: the dict after the call.             *)

SetCategoryBudgetCats(cats, category_name, monthly_limit) ==
    IF category_name \in Names(cats)
    THEN [i \in 1..Len(cats) |->
            IF cats[i].name = category_name
            THEN [cats[i] EXCEPT !.monthly_limit = monthly_limit]
            ELSE cats[i]]
    ELSE Append(cats, BudgetCategory(category_name, monthly_limit))

(* update_spending, lines 52-56: the filter of the month's expenses.       *)
IsMonthlyExpense(t, year, month) ==
    /\ t.date.year = year
    /\ t.date.month = month
    /\ t.transaction_type = EXPENSE

(* A refresh that forgets to start again from 0.                           *)
KeepSpent(c) == c

(* update_spending, lines 58-59: every category starts again from 0.       *)
ResetSpent(c) == [c EXCEPT !.current_spent = 0]

(* update_spending, lines 61-63: the month's expenses are added one by one *)
(* to the category they name; an expense of no configured category is     *)
(* dropped.                                                                *)
RECURSIVE Accumulate(_, _, _, _)
Accumulate(cats, txs, year, month) ==
    IF txs = <<>> THEN cats
    ELSE LET t == Head(txs)
             next == IF IsMonthlyExpense(t, year, month)
                        /\ t.category \in Names(cats)
                     THEN [i \in 1..Len(cats) |->
                             IF cats[i].name = t.category
                             THEN [cats[i] EXCEPT
                                     !.current_spent = @ + t.amount]
                             ELSE cats[i]]
                     ELSE cats
         IN Accumulate(next, Tail(txs), year, month)

(* BudgetManager.update_spending: the dict after the call.                 *)
UpdateSpendingCats(cats, txs, year, month) ==
    Accumulate([i \in 1..Len(cats) |-> ResetSpent(cats[i])], txs, year, month)

----------------------------------------------------------------------------
(* The ledger's queries (budget_manager.py).                               *)

(* The float quotient a / b * 100 as the exact fraction (a * 100) / b;     *)
(* b = 0 never gets here (the division raises first).                      *)
Percentage(a, b) == [num |-> a * 100, den |-> b]

(* percentage <= k, for a fraction of either sign of denominator.          *)
PctLeq(p, k) == IF p.den > 0 THEN p.num <= k * p.den ELSE p.num >= k * p.den

(* get_budget_status, lines 73-78.                                         *)
AlertLevel(percentage_used) ==
    IF PctLeq(percentage_used, 75) THEN "green"
    ELSE IF PctLeq(percentage_used, 90) THEN "yellow"
    ELSE "red"

(* get_budget_status, lines 70-86: one category's entry.                   *)
StatusEntry(c) ==
    LET remaining == c.monthly_limit - c.current_spent
        percentage_used == Percentage(c.current_spent, c.monthly_limit)
    IN [name |-> c.name,
        limit |-> c.monthly_limit,
        spent |-> c.current_spent,
        remaining |-> remaining,
        percentage_used |-> percentage_used,
        alert_level |-> AlertLevel(percentage_used)]

(* line 71 divides by monthly_limit: Python raises ZeroDivisionError for a *)
(* zero divisor, float or int, and the method has no handler.              *)
DividesByZero(cats) == \E i \in 1..Len(cats) : cats[i].monthly_limit = 0

(* BudgetManager.get_budget_status: what the call returns or raises.       *)
GetBudgetStatusOf(cats) ==
    IF DividesByZero(cats)
    THEN Raised("get_budget_status", None, "ZeroDivisionError")
    ELSE Returned("get_budget_status", None,
                  [i \in 1..Len(cats) |-> StatusEntry(cats[i])])

(* BudgetManager.get_overspent_categories: names, in insertion order.      *)
RECURSIVE GetOverspentCategories(_)
GetOverspentCategories(cats) ==
    IF cats = <<>> THEN <<>>
    ELSE (IF Head(cats).current_spent > Head(cats).monthly_limit
          THEN <<Head(cats).name>> ELSE <<>>)
         \o GetOverspentCategories(Tail(cats))

RECURSIVE GetTotalBudget(_)
GetTotalBudget(cats) ==
    IF cats = <<>> THEN 0
    ELSE Head(cats).monthly_limit + GetTotalBudget(Tail(cats))

RECURSIVE GetTotalSpent(_)
GetTotalSpent(cats) ==
    IF cats = <<>> THEN 0
    ELSE Head(cats).current_spent + GetTotalSpent(Tail(cats))

(* suggest_reallocation, line 108.                                         *)
IsOverspent(c) == c.current_spent > c.monthly_limit

(* suggest_reallocation, line 110: current_spent < monthly_limit * 0.7,    *)
(* reached only when the category is not overspent.                        *)
IsUnderspent(c) == ~IsOverspent(c) /\ 10 * c.current_spent < 7 * c.monthly_limit

(* suggest_reallocation, lines 107-111: the two lists of (name, delta).    *)
RECURSIVE OverspentList(_)
OverspentList(cats) ==
    IF cats = <<>> THEN <<>>
    ELSE (IF IsOverspent(Head(cats))
          THEN <<[name |-> Head(cats).name,
                  delta |-> Head(cats).current_spent - Head(cats).monthly_limit]>>
          ELSE <<>>)
         \o OverspentList(Tail(cats))

RECURSIVE UnderspentList(_)
UnderspentList(cats) ==
    IF cats = <<>> THEN <<>>
    ELSE (IF IsUnderspent(Head(cats))
          THEN <<[name |-> Head(cats).name,
                  delta |-> Head(cats).monthly_limit - Head(cats).current_spent]>>
          ELSE <<>>)
         \o UnderspentList(Tail(cats))

(* list.sort(key=delta, reverse=True): descending and stable, so equal     *)
(* deltas keep their insertion order.                                      *)
RECURSIVE InsertDescending(_, _)
InsertDescending(sorted, x) ==
    IF sorted = <<>> THEN <<x>>
    ELSE IF Head(sorted).delta >= x.delta
         THEN <<Head(sorted)>> \o InsertDescending(Tail(sorted), x)
         ELSE <<x>> \o sorted

(* A list left in insertion order.                                         *)
KeepOrder(s) == s

RECURSIVE SortDescending(_)
SortDescending(s) ==
    IF s = <<>> THEN <<>>
    ELSE InsertDescending(SortDescending(SubSeq(s, 1, Len(s) - 1)), s[Len(s)])

(* f"{x:.2f}" of an amount of whole units: the units and two zero digits.  *)
FormatFixed2(x) == [units |-> x, hundredths |-> 0]

(* A search that passes over a donor whose surplus equals the deficit.     *)
RECURSIVE FirstDonorStrict(_, _)
FirstDonorStrict(underspent, over_amount) ==
    IF underspent = <<>> THEN <<>>
    ELSE IF Head(underspent).delta > over_amount THEN <<Head(underspent)>>
    ELSE FirstDonorStrict(Tail(underspent), over_amount)

(* suggest_reallocation, lines 118-121: the first entry of the sorted      *)
(* underspent list whose amount covers over_amount; <<>> when none does.   *)
RECURSIVE FirstDonor(_, _)
FirstDonor(underspent, over_amount) ==
    IF underspent = <<>> THEN <<>>
    ELSE IF Head(underspent).delta >= over_amount THEN <<Head(underspent)>>
    ELSE FirstDonor(Tail(underspent), over_amount)

(* suggest_reallocation, lines 117-121: the suggestions, in the order of   *)
(* the sorted overspent list, against an underspent list that never        *)
(* shrinks.                                                                *)
RECURSIVE PairUp(_, _)
PairUp(overspent, underspent) ==
    IF overspent = <<>> THEN <<>>
    ELSE LET over == Head(overspent)
             donor == FirstDonor(underspent, over.delta)
         IN (IF donor = <<>> THEN <<>>
             ELSE <<[category |-> over.name,
                     amount |-> FormatFixed2(over.delta),
                     from |-> donor[1].name]>>)
            \o PairUp(Tail(overspent), underspent)

(* BudgetManager.suggest_reallocation: the dict of suggestions, in         *)
(* insertion order.                                                        *)
SuggestReallocationOf(cats) ==
    LET overspent == OverspentList(cats)
        underspent == UnderspentList(cats)
    IN IF overspent # <<>> /\ underspent # <<>>
       THEN PairUp(SortDescending(overspent), SortDescending(underspent))
       ELSE <<>>

(* BudgetManager.generate_budget_report: the parts the text is made of.    *)
(* get_budget_status is its first call, so its exception ends the report.  *)
GenerateBudgetReportOf(cats) ==
    LET status == GetBudgetStatusOf(cats)
    IN IF status.raised # ""
       THEN Raised("generate_budget_report", None, status.raised)
       ELSE Returned("generate_budget_report", None,
                [total_budget |-> GetTotalBudget(cats),
                 total_spent |-> GetTotalSpent(cats),
                 overall_remaining |-> GetTotalBudget(cats) - GetTotalSpent(cats),
                 overspent |-> GetOverspentCategories(cats),
                 breakdown |-> status.value,
                 suggestions |-> SuggestReallocationOf(cats)])

----------------------------------------------------------------------------
(* The health scorer (utils.py).                                           *)

(* percentage >= k, for a fraction of either sign of denominator.          *)
PctGeq(p, k) == IF p.den > 0 THEN p.num >= k * p.den ELSE p.num <= k * p.den
PctLess(p, k) == ~PctGeq(p, k)

(* get_financial_health_score, lines 117-122.                              *)
SavingsPoints(savings_rate) ==
    IF PctGeq(savings_rate, 20) THEN 40
    ELSE IF PctGeq(savings_rate, 10) THEN 25
    ELSE IF PctGeq(savings_rate, 5) THEN 15
    ELSE 0

(* An expense component whose thresholds are strict.                       *)
ExpensePointsStrict(expense_ratio) ==
    IF ~PctGeq(expense_ratio, 50) THEN 30
    ELSE IF ~PctGeq(expense_ratio, 70) THEN 20
    ELSE IF ~PctGeq(expense_ratio, 90) THEN 10
    ELSE 0

(* get_financial_health_score, lines 124-129.                              *)
ExpensePoints(expense_ratio) ==
    IF PctLeq(expense_ratio, 50) THEN 30
    ELSE IF PctLeq(expense_ratio, 70) THEN 20
    ELSE IF PctLeq(expense_ratio, 90) THEN 10
    ELSE 0

(* line 131: savings / (expenses / 12) if expenses > 0 else 0, as the      *)
(* exact fraction (12 * savings) / expenses.                               *)
EmergencyFundMonths(expenses, savings) ==
    IF expenses > 0 THEN [num |-> 12 * savings, den |-> expenses]
    ELSE [num |-> 0, den |-> 1]

(* An emergency fund component that keeps growing with the fund.           *)
EmergencyPointsUncapped(emergency_fund_months) ==
    IF PctGeq(emergency_fund_months, 12) THEN 40
    ELSE IF PctGeq(emergency_fund_months, 6) THEN 30
    ELSE IF PctGeq(emergency_fund_months, 3) THEN 20
    ELSE IF PctGeq(emergency_fund_months, 1) THEN 10
    ELSE 0

(* get_financial_health_score, lines 132-137.                              *)
EmergencyPoints(emergency_fund_months) ==
    IF PctGeq(emergency_fund_months, 6) THEN 30
    ELSE IF PctGeq(emergency_fund_months, 3) THEN 20
    ELSE IF PctGeq(emergency_fund_months, 1) THEN 10
    ELSE 0

(* lines 139-146: grade_map, in the order the dict is written.             *)
GradeMap ==
    <<[min_score |-> 90, max_score |-> 100, letter_grade |-> "A+"],
      [min_score |-> 80, max_score |-> 89, letter_grade |-> "A"],
      [min_score |-> 70, max_score |-> 79, letter_grade |-> "B"],
      [min_score |-> 60, max_score |-> 69, letter_grade |-> "C"],
      [min_score |-> 50, max_score |-> 59, letter_grade |-> "D"],
      [min_score |-> 0, max_score |-> 49, letter_grade |-> "F"]>>

(* lines 148-152: the first band that holds the score, "F" when none does. *)
RECURSIVE GradeLoop(_, _)
GradeLoop(bands, score) ==
    IF bands = <<>> THEN "F"
    ELSE IF Head(bands).min_score <= score /\ score <= Head(bands).max_score
         THEN Head(bands).letter_grade
         ELSE GradeLoop(Tail(bands), score)

(* lines 154-160.                                                          *)
Recommendations(savings_rate, expense_ratio, emergency_fund_months) ==
    (IF PctLess(savings_rate, 10)
     THEN <<"Increase savings rate to at least 10%">> ELSE <<>>)
    \o (IF ~PctLeq(expense_ratio, 70)
        THEN <<"Reduce monthly expenses">> ELSE <<>>)
    \o (IF PctLess(emergency_fund_months, 3)
        THEN <<"Build emergency fund (3-6 months expenses)">> ELSE <<>>)

(* utils.get_financial_health_score.                                       *)
GetFinancialHealthScoreOf(income, expenses, savings) ==
    IF income = 0
    THEN [score |-> 0, grade |-> "F",
          recommendations |-> <<"Increase income sources">>]
    ELSE LET savings_rate == Percentage(savings, income)
             expense_ratio == Percentage(expenses, income)
             emergency_fund_months == EmergencyFundMonths(expenses, savings)
             score == SavingsPoints(savings_rate)
                        + ExpensePoints(expense_ratio)
                        + EmergencyPoints(emergency_fund_months)
         IN [score |-> score,
             grade |-> GradeLoop(GradeMap, score),
             savings_rate |-> savings_rate,
             expense_ratio |-> expense_ratio,
             emergency_fund_months |-> emergency_fund_months,
             recommendations |-> Recommendations(savings_rate, expense_ratio,
                                                 emergency_fund_months)]

----------------------------------------------------------------------------
(* The calls that change the state.                                        *)


Init ==
    /\ transactions = <<>>
    /\ categories = <<>>
    /\ today = Date(StartYear, 12)
    /\ requested = <<>>
    /\ repeated = 0
    /\ ret = Returned("__init__", None, None)

(* utils.validate_amount, for an input that parses as a number.  Neither   *)
(* add_transaction nor the menu loop that calls it (main.py, 123 and 130)  *)
(* goes through it.                                                        *)
ValidateAmount(amount) ==
    IF amount <= 0 THEN Raised("validate_amount", amount, "ValueError")
    ELSE Returned("validate_amount", amount, amount)

(* FinanceTracker.add_transaction.  The amount is stored as given: nothing *)
(* on this path checks its sign.  date.today() is read twice (lines 63 and *)
(* 70); the month may change between the two reads.                        *)
AddTransaction(amount, category, description, transaction_type, later) ==
    /\ later \in {today} \cup (IF Elapsed(today) < MaxMonths
                              THEN {NextMonth(today)} ELSE {})
    /\ LET transaction == Transaction(amount, category, description, today,
                                      transaction_type)
           txs == Append(transactions, transaction)
       IN /\ transactions' = txs
          /\ categories' = UpdateSpendingCats(categories, txs,
                                              later.year, later.month)
          /\ requested' = <<later>>
          /\ repeated' = 1
          /\ today' = later
          /\ ret' = Returned("add_transaction", None, None)

(* BudgetManager.set_category_budget.                                      *)
SetCategoryBudget(category_name, monthly_limit) ==
    /\ categories' = SetCategoryBudgetCats(categories, category_name,
                                           monthly_limit)
    /\ ret' = Returned("set_category_budget", None, None)
    /\ repeated' = 0
    /\ UNCHANGED <<transactions, today, requested>>

(* BudgetManager.update_spending, called with the store's transactions.    *)
UpdateSpending(year, month) ==
    /\ categories' = UpdateSpendingCats(categories, transactions, year, month)
    /\ requested' = <<Date(year, month)>>
    /\ repeated' = IF repeated >= 1 /\ requested = <<Date(year, month)>>
                   THEN 2
                   ELSE 1
    /\ ret' = Returned("update_spending", None, None)
    /\ UNCHANGED <<transactions, today>>

(* Time passes between two calls.                                          *)
Tick ==
    /\ Elapsed(today) < MaxMonths
    /\ today' = NextMonth(today)
    /\ UNCHANGED <<transactions, categories, requested, repeated, ret>>

(* The same calls when a write to the file fails.  save_data and           *)
(* save_budget open the file for writing and dump into it with no handler  *)
(* around them, and none of their callers has one: the OSError of open or  *)
(* of the write leaves through the call, after whatever the call had       *)
(* already assigned in memory.                                             *)

(* add_transaction, save_data raising (line 67): the transaction is        *)
(* already appended (line 66); lines 70 and 71 are not reached.            *)
AddTransactionSaveDataFails(amount, category, description, transaction_type) ==
    /\ transactions' = Append(transactions,
                              Transaction(amount, category, description, today,
                                          transaction_type))
    /\ ret' = Raised("add_transaction", None, "OSError")
    /\ repeated' = 0
    /\ UNCHANGED <<categories, today, requested>>

(* add_transaction, save_data succeeding and the save_budget at the end of *)
(* update_spending raising (budget_manager.py, line 65): the store and the *)
(* ledger are both already assigned.                                       *)
AddTransactionSaveBudgetFails(amount, category, description, transaction_type, later) ==
    /\ later \in {today} \cup (IF Elapsed(today) < MaxMonths
                              THEN {NextMonth(today)} ELSE {})
    /\ LET transaction == Transaction(amount, category, description, today,
                                      transaction_type)
           txs == Append(transactions, transaction)
       IN /\ transactions' = txs
          /\ categories' = UpdateSpendingCats(categories, txs,
                                              later.year, later.month)
          /\ requested' = <<later>>
          /\ repeated' = 1
          /\ today' = later
          /\ ret' = Raised("add_transaction", None, "OSError")

(* set_category_budget, save_budget raising (line 49): the category is     *)
(* already created or its limit already assigned (lines 45 to 48).         *)
SetCategoryBudgetSaveFails(category_name, monthly_limit) ==
    /\ categories' = SetCategoryBudgetCats(categories, category_name,
                                           monthly_limit)
    /\ ret' = Raised("set_category_budget", None, "OSError")
    /\ repeated' = 0
    /\ UNCHANGED <<transactions, today, requested>>

(* update_spending, save_budget raising (line 65): current_spent is        *)
(* already reset and accumulated (lines 58 to 63).                         *)
UpdateSpendingSaveFails(year, month) ==
    /\ categories' = UpdateSpendingCats(categories, transactions, year, month)
    /\ requested' = <<Date(year, month)>>
    /\ repeated' = IF repeated >= 1 /\ requested = <<Date(year, month)>>
                   THEN 2
                   ELSE 1
    /\ ret' = Raised("update_spending", None, "OSError")
    /\ UNCHANGED <<transactions, today>>

----------------------------------------------------------------------------
(* Python's float is IEEE-754 binary64.  On small whole numbers of units   *)
(* binary64 adds, subtracts and compares exactly, and the model writes     *)
(* such amounts as integers.  An amount that is not a whole number of      *)
(* units (ten cents) is written as its binary64 value [neg, bits]: bits is *)
(* the set of the exponents e of the powers 2^e that make up its magnitude *)
(* (at most 53 consecutive positions), and zero is [FALSE, {}].  The       *)
(* store's get_balance is modelled on both kinds of amount.                *)

Precision == 53

Max(S) == CHOOSE x \in S : \A y \in S : y <= x

XorBits(A, B) == (A \ B) \cup (B \ A)

(* A + B on magnitudes: the sum without carries, plus the carries.         *)
RECURSIVE MagAdd(_, _)
MagAdd(A, B) ==
    IF B = {} THEN A ELSE MagAdd(XorBits(A, B), {i + 1 : i \in A \cap B})

(* A - B on magnitudes, for A >= B.                                        *)
RECURSIVE MagSub(_, _)
MagSub(A, B) ==
    IF B = {} THEN A ELSE MagSub(XorBits(A, B), {i + 1 : i \in B \ A})

MagLess(A, B) == A # B /\ Max(XorBits(A, B)) \in B

(* Round to nearest, ties to even, at Precision significant bits.          *)
RoundBits(A) ==
    IF A = {} THEN {}
    ELSE LET last == Max(A) - (Precision - 1)     \* the lowest bit kept
             kept == {i \in A : i >= last}
             rest == A \ kept
             up == /\ (last - 1) \in rest
                   /\ (rest # {last - 1} \/ last \in kept)
         IN IF up THEN MagAdd(kept, {last}) ELSE kept

(* binary64 addition: the exact sum, rounded once.                         *)
Binary64Add(x, y) ==
    IF x.neg = y.neg
    THEN [neg |-> x.neg /\ (x.bits # {} \/ y.bits # {}),
          bits |-> RoundBits(MagAdd(x.bits, y.bits))]
    ELSE IF x.bits = y.bits THEN [neg |-> FALSE, bits |-> {}]
    ELSE IF MagLess(x.bits, y.bits)
         THEN [neg |-> y.neg, bits |-> RoundBits(MagSub(y.bits, x.bits))]
         ELSE [neg |-> x.neg, bits |-> RoundBits(MagSub(x.bits, y.bits))]

Binary64Neg(x) == [neg |-> ~x.neg /\ x.bits # {}, bits |-> x.bits]

Binary64Sub(x, y) == Binary64Add(x, Binary64Neg(y))

Binary64Zero == [neg |-> FALSE, bits |-> {}]

(* float("0.1"), float("0.2") and float("0.3"):                            *)
(* 0x1.999999999999ap-4, 0x1.999999999999ap-3 and 0x1.3333333333333p-2.    *)
Float01 ==
    [neg |-> FALSE,
     bits |-> {-4, -5, -8, -9, -12, -13, -16, -17, -20, -21,
              -24, -25, -28, -29, -32, -33, -36, -37, -40, -41,
              -44, -45, -48, -49, -52, -53, -55}]
Float02 ==
    [neg |-> FALSE,
     bits |-> {-3, -4, -7, -8, -11, -12, -15, -16, -19, -20,
              -23, -24, -27, -28, -31, -32, -35, -36, -39, -40,
              -43, -44, -47, -48, -51, -52, -54}]
Float03 ==
    [neg |-> FALSE,
     bits |-> {-2, -5, -6, -9, -10, -13, -14, -17, -18, -21,
              -22, -25, -26, -29, -30, -33, -34, -37, -38, -41,
              -42, -45, -46, -49, -50, -53, -54}]

FloatAmounts == {Float01, Float02, Float03}

----------------------------------------------------------------------------
(* The store's queries (main.py).                                          *)

(* A balance that is never let below zero.                                 *)
ClampedBalanceStep(balance, t) ==
    IF t.transaction_type = INCOME THEN balance + t.amount
    ELSE IF balance - t.amount < 0 THEN 0 ELSE balance - t.amount

(* get_balance, lines 76-79: one turn of the loop.                         *)
BalanceStep(balance, t) ==
    IF t.transaction_type = INCOME THEN balance + t.amount
    ELSE balance - t.amount

RECURSIVE BalanceLoop(_, _)
BalanceLoop(balance, txs) ==
    IF txs = <<>> THEN balance
    ELSE BalanceLoop(BalanceStep(balance, Head(txs)), Tail(txs))

(* FinanceTracker.get_balance.                                             *)
GetBalanceOf(txs) == BalanceLoop(0, txs)

(* get_balance on binary64 amounts.  The loop starts from the int 0, which *)
(* Python converts to 0.0 at the first float it meets.                     *)
Binary64BalanceStep(balance, t) ==
    IF t.transaction_type = INCOME THEN Binary64Add(balance, t.amount)
    ELSE Binary64Sub(balance, t.amount)

RECURSIVE Binary64BalanceLoop(_, _)
Binary64BalanceLoop(balance, txs) ==
    IF txs = <<>> THEN balance
    ELSE Binary64BalanceLoop(Binary64BalanceStep(balance, Head(txs)), Tail(txs))

GetBinary64BalanceOf(txs) == Binary64BalanceLoop(Binary64Zero, txs)

(* get_monthly_summary, lines 83-86.                                       *)
RECURSIVE MonthlyTransactions(_, _, _)
MonthlyTransactions(txs, year, month) ==
    IF txs = <<>> THEN <<>>
    ELSE (IF Head(txs).date.year = year /\ Head(txs).date.month = month
          THEN <<Head(txs)>> ELSE <<>>)
         \o MonthlyTransactions(Tail(txs), year, month)

(* get_monthly_summary, lines 88-91: sum(t.amount for t in txs if type).   *)
RECURSIVE SumOfType(_, _)
SumOfType(txs, transaction_type) ==
    IF txs = <<>> THEN 0
    ELSE (IF Head(txs).transaction_type = transaction_type
          THEN Head(txs).amount ELSE 0)
         + SumOfType(Tail(txs), transaction_type)

Keys(dict) == {dict[i].key : i \in 1..Len(dict)}

(* A breakdown that creates a key only when it has an expense to add.      *)
BreakdownAddExpensesOnly(dict, t) ==
    IF t.transaction_type # EXPENSE THEN dict
    ELSE IF t.category \notin Keys(dict)
         THEN Append(dict, [key |-> t.category, value |-> t.amount])
         ELSE [i \in 1..Len(dict) |->
                 IF dict[i].key = t.category
                 THEN [dict[i] EXCEPT !.value = @ + t.amount] ELSE dict[i]]

(* get_monthly_summary, lines 95-98: one turn of the loop over the month's *)
(* transactions; the dict keeps its keys in first-seen order.              *)
BreakdownAdd(dict, t) ==
    LET keyed == IF t.category \notin Keys(dict)
                 THEN Append(dict, [key |-> t.category, value |-> 0])
                 ELSE dict
    IN IF t.transaction_type = EXPENSE
       THEN [i \in 1..Len(keyed) |->
               IF keyed[i].key = t.category
               THEN [keyed[i] EXCEPT !.value = @ + t.amount] ELSE keyed[i]]
       ELSE keyed

RECURSIVE BreakdownLoop(_, _)
BreakdownLoop(dict, txs) ==
    IF txs = <<>> THEN dict
    ELSE BreakdownLoop(BreakdownAdd(dict, Head(txs)), Tail(txs))

(* FinanceTracker.get_monthly_summary.                                     *)
GetMonthlySummaryOf(txs, year, month) ==
    LET monthly_transactions == MonthlyTransactions(txs, year, month)
        income == SumOfType(monthly_transactions, INCOME)
        expenses == SumOfType(monthly_transactions, EXPENSE)
    IN [income |-> income,
        expenses |-> expenses,
        net |-> income - expenses,
        category_breakdown |-> BreakdownLoop(<<>>, monthly_transactions)]

(* The queries: nothing changes but what the caller holds.                 *)
GetBudgetStatus ==
    /\ ret' = GetBudgetStatusOf(categories)
    /\ UNCHANGED <<transactions, categories, today, requested, repeated>>

SuggestReallocation ==
    /\ ret' = Returned("suggest_reallocation", None,
                    SuggestReallocationOf(categories))
    /\ UNCHANGED <<transactions, categories, today, requested, repeated>>

GenerateBudgetReport ==
    /\ ret' = GenerateBudgetReportOf(categories)
    /\ UNCHANGED <<transactions, categories, today, requested, repeated>>

AddAny(amounts) ==
    \E amount \in amounts, category \in CategoryNames,
       transaction_type \in TransactionType, later \in {today, NextMonth(today)} :
        AddTransaction(amount, category, "d", transaction_type, later)

GetBalance ==
    /\ ret' = Returned("get_balance", None, GetBalanceOf(transactions))
    /\ UNCHANGED <<transactions, categories, today, requested, repeated>>

GetMonthlySummary(year, month) ==
    /\ ret' = Returned("get_monthly_summary", <<year, month>>,
                       GetMonthlySummaryOf(transactions, year, month))
    /\ UNCHANGED <<transactions, categories, today, requested, repeated>>

Next ==
    \/ Len(transactions) < MaxTx /\ AddAny(Amounts)
    \/ \E category_name \in CategoryNames, monthly_limit \in Limits :
            SetCategoryBudget(category_name, monthly_limit)
    \/ \E year \in Years, month \in Months : UpdateSpending(year, month)
    \/ Tick

Spec == Init /\ [][Next]_vars

(* The store alone, with no budget configured: its queries over longer     *)
(* transaction sequences.                                                  *)
NextStore ==
    \/ Len(transactions) < MaxStoreTx /\ AddAny(Amounts)
    \/ Tick
    \/ GetBalance
    \/ \E year \in Years, month \in Months : GetMonthlySummary(year, month)

SpecStore == Init /\ [][NextStore]_vars

(* The ledger alone, as BudgetManager.load_budget builds it from a budget  *)
(* file: the categories in the file's order, each with the limit and the   *)
(* current_spent the file gives it.  One unit is ten dollars.              *)
LedgerNames == <<"Food", "Transportation", "Entertainment", "Utilities">>
LedgerLimits == {0, 20}
LedgerSpents == {0, 5, 13, 14, 15, 16, 18, 19, 25, 30}

LoadedCategory(name, monthly_limit, current_spent) ==
    [name |-> name, monthly_limit |-> monthly_limit,
     current_spent |-> current_spent]

InitLedger ==
    /\ transactions = <<>>
    /\ \E n \in 0..MaxCats :
          \E limits \in [1..n -> LedgerLimits], spents \in [1..n -> LedgerSpents] :
              categories = [i \in 1..n |->
                              LoadedCategory(LedgerNames[i], limits[i], spents[i])]
    /\ today = Date(StartYear, 12)
    /\ requested = <<>>
    /\ repeated = 0
    /\ ret = Returned("__init__", None, None)

NextLedger ==
    \/ GetBudgetStatus
    \/ SuggestReallocation
    \/ GenerateBudgetReport

SpecLedger == InitLedger /\ [][NextLedger]_vars

(* The health scorer alone: a caller holds one input of the ranges, as the *)
(* menu loop does at main.py 190-194, and makes the call.                  *)
Calling(op, args) == [op |-> "call", args |-> args, raised |-> "", value |-> op]

InitHealth ==
    /\ transactions = <<>>
    /\ categories = <<>>
    /\ today = Date(StartYear, 12)
    /\ requested = <<>>
    /\ repeated = 0
    /\ \E income \in 0..MaxIncome, expenses \in (-1)..MaxExpenses,
          savings \in (-1)..MaxSavings :
           ret = Calling("get_financial_health_score",
                         <<income, expenses, savings>>)

GetFinancialHealthScore ==
    /\ ret.op = "call"
    /\ ret' = Returned("get_financial_health_score", ret.args,
                       GetFinancialHealthScoreOf(ret.args[1], ret.args[2],
                                                 ret.args[3]))
    /\ UNCHANGED <<transactions, categories, today, requested, repeated>>

NextHealth == GetFinancialHealthScore

SpecHealth == InitHealth /\ [][NextHealth]_vars

(* The store with amounts that are not whole numbers of units.             *)
GetBinary64Balance ==
    /\ ret' = Returned("get_balance", None, GetBinary64BalanceOf(transactions))
    /\ UNCHANGED <<transactions, categories, today, requested, repeated>>

NextFloat ==
    \/ Len(transactions) < MaxStoreTx /\ AddAny(FloatAmounts)
    \/ GetBinary64Balance

SpecFloat == Init /\ [][NextFloat]_vars

(* The tracker and its ledger on a disk that may refuse a write.           *)
NextPersist ==
    \/ Len(transactions) < MaxTx /\ AddAny(Amounts)
    \/ \E category_name \in CategoryNames, monthly_limit \in Limits :
            SetCategoryBudget(category_name, monthly_limit)
    \/ \E year \in Years, month \in Months : UpdateSpending(year, month)
    \/ Tick
    \/ /\ Len(transactions) < MaxTx
       /\ \E amount \in Amounts, category \in CategoryNames,
             transaction_type \in TransactionType :
               AddTransactionSaveDataFails(amount, category, "d",
                                           transaction_type)
    \/ /\ Len(transactions) < MaxTx
       /\ \E amount \in Amounts, category \in CategoryNames,
             transaction_type \in TransactionType,
             later \in {today, NextMonth(today)} :
               AddTransactionSaveBudgetFails(amount, category, "d",
                                             transaction_type, later)
    \/ \E category_name \in CategoryNames, monthly_limit \in Limits :
            SetCategoryBudgetSaveFails(category_name, monthly_limit)
    \/ \E year \in Years, month \in Months :
            UpdateSpendingSaveFails(year, month)

SpecPersist == Init /\ [][NextPersist]_vars

----------------------------------------------------------------------------
(* The ledger against the store.                                           *)

(* The sum of the EXPENSE amounts of txs dated in month d of category name *)
RECURSIVE ExpensesOf(_, _, _)
ExpensesOf(txs, name, d) ==
    IF txs = <<>> THEN 0
    ELSE (IF /\ Head(txs).transaction_type = EXPENSE
             /\ Head(txs).date = d
             /\ Head(txs).category = name
          THEN Head(txs).amount ELSE 0)
         + ExpensesOf(Tail(txs), name, d)

SpentIsCurrent ==
    \A i \in 1..Len(categories) :
        categories[i].current_spent
            = ExpensesOf(transactions, categories[i].name, requested[1])

(* C2: a non-positive amount is rejected, so every transaction held in the *)
(* store has amount > 0.                                                   *)
C2_StoredAmountsPositive ==
    \A i \in 1..Len(transactions) : transactions[i].amount > 0

(* C1: once a month has been requested, in every reachable state every     *)
(* configured category's current_spent is the sum of the EXPENSE amounts   *)
(* in the store that are dated in the most recently requested month and    *)
(* name that category, also right after set_category_budget created it.    *)
(* Stated for the stores C2 allows, those of positive amounts only.        *)
C1_SpentReflectsRequestedMonth ==
    (requested # <<>> /\ C2_StoredAmountsPositive) => SpentIsCurrent

(* What does hold of the code: the ledger is current right after each      *)
(* add_transaction and each update_spending.                               *)
SpentCurrentAfterRefresh ==
    ret.op \in {"add_transaction", "update_spending"} => SpentIsCurrent

(* C11: when a write to the file fails during add_transaction,             *)
(* set_category_budget or update_spending, the call raises and the state   *)
(* in memory stays valid: if every category's current_spent was the sum of *)
(* the matching EXPENSE amounts of the requested month before the call, it *)
(* still is after the failed call, so no transaction is in the store that  *)
(* the ledger has not accounted for.  Stated for the stores C2 allows.     *)
C11_FailedWriteKeepsStateValid ==
    [][(/\ ret'.raised = "OSError"
        /\ requested' # <<>>
        /\ C2_StoredAmountsPositive'
        /\ (requested # <<>> => SpentIsCurrent))
            => SpentIsCurrent']_vars

(* The same for add_transaction alone: it fails already there, on the      *)
(* save_data that raises between the append and the refresh.               *)
FailedAddKeepsLedgerCurrent ==
    [][(/\ ret'.op = "add_transaction"
        /\ ret'.raised = "OSError"
        /\ requested' # <<>>
        /\ C2_StoredAmountsPositive'
        /\ (requested # <<>> => SpentIsCurrent))
            => SpentIsCurrent']_vars

(* What does hold of the code: a failed update_spending, and a failed      *)
(* add_transaction whose refresh was reached, leave the ledger current.    *)
SpentCurrentAfterFailedRefresh ==
    [][(/\ ret'.raised = "OSError"
        /\ repeated' >= 1)
            => SpentIsCurrent']_vars


(* C3: get_budget_status and generate_budget_report never raise: the       *)
(* status has an entry for every category, and a category whose limit is 0 *)
(* is reported with percentage_used 0 and alert level green.               *)
C3_StatusTotal ==
    /\ ret.op \in {"get_budget_status", "generate_budget_report"}
            => ret.raised = ""
    /\ ret.op = "get_budget_status" =>
            /\ Len(ret.value) = Len(categories)
            /\ \A i \in 1..Len(categories) :
                   /\ ret.value[i].name = categories[i].name
                   /\ categories[i].monthly_limit = 0 =>
                          /\ ret.value[i].percentage_used.num = 0
                          /\ ret.value[i].alert_level = "green"

(* C9: a second update_spending call in a row with the same transactions,  *)
(* year and month leaves every current_spent as the first call left it,    *)
(* and no update_spending call changes the categories or their limits.     *)
NamesAndLimits(cats) == [i \in 1..Len(cats) |-> <<cats[i].name, cats[i].monthly_limit>>]

C9_RefreshIdempotent ==
    [][/\ (repeated >= 1 /\ repeated' >= 2) => categories' = categories
       /\ ret'.op = "update_spending"
             => NamesAndLimits(categories') = NamesAndLimits(categories)]_vars

C9_Witness ==
    /\ repeated >= 2
    /\ ret.op = "update_spending"
    /\ \E i \in 1..Len(categories) : categories[i].current_spent > 0
    /\ \E i \in 1..Len(transactions) :
           /\ transactions[i].date # requested[1]
           /\ transactions[i].transaction_type = EXPENSE

----------------------------------------------------------------------------
(* The store's queries against sums over the stored transactions.          *)

(* The sum of the amounts of the transactions of txs at the indices in S.  *)
RECURSIVE SumAmounts(_, _)
SumAmounts(txs, S) ==
    IF S = {} THEN 0
    ELSE LET i == CHOOSE j \in S : TRUE
         IN txs[i].amount + SumAmounts(txs, S \ {i})

IndicesOfType(txs, transaction_type) ==
    {i \in 1..Len(txs) : txs[i].transaction_type = transaction_type}

IndicesInMonth(txs, year, month) ==
    {i \in 1..Len(txs) : txs[i].date = Date(year, month)}

Permuted(txs, p) == [i \in 1..Len(txs) |-> txs[p[i]]]

(* C8: the monthly summary has income and expenses equal to the sums of    *)
(* the month's INCOME and EXPENSE amounts, net = income - expenses, and a  *)
(* breakdown whose keys are exactly the categories with a transaction of   *)
(* either type in the month, each once, valued with the sum of that        *)
(* category's EXPENSE amounts in the month; with no transaction in the     *)
(* month every sum is 0 and the breakdown is empty.                        *)
C8_MonthlySummary ==
    ret.op = "get_monthly_summary" =>
        LET inMonth == IndicesInMonth(transactions, ret.args[1], ret.args[2])
            incomes == inMonth \cap IndicesOfType(transactions, INCOME)
            expenses == inMonth \cap IndicesOfType(transactions, EXPENSE)
            breakdown == ret.value.category_breakdown
        IN /\ ret.raised = ""
           /\ ret.value.income = SumAmounts(transactions, incomes)
           /\ ret.value.expenses = SumAmounts(transactions, expenses)
           /\ ret.value.net = ret.value.income - ret.value.expenses
           /\ Keys(breakdown) = {transactions[i].category : i \in inMonth}
           /\ Len(breakdown) = Cardinality(Keys(breakdown))
           /\ \A k \in 1..Len(breakdown) :
                 breakdown[k].value
                     = SumAmounts(transactions,
                           {i \in expenses :
                               transactions[i].category = breakdown[k].key})
           /\ inMonth = {} =>
                 ret.value = [income |-> 0, expenses |-> 0, net |-> 0,
                              category_breakdown |-> <<>>]

(* A summary of a month that holds an INCOME-only category and a category  *)
(* with expenses, while another month holds a transaction too.             *)
C8_Witness ==
    /\ ret.op = "get_monthly_summary"
    /\ \E k \in 1..Len(ret.value.category_breakdown) :
          /\ ret.value.category_breakdown[k].value = 0
          /\ \E i \in IndicesInMonth(transactions, ret.args[1], ret.args[2]) :
                /\ transactions[i].category = ret.value.category_breakdown[k].key
                /\ transactions[i].transaction_type = INCOME
                /\ transactions[i].amount > 0
    /\ \E k \in 1..Len(ret.value.category_breakdown) :
          ret.value.category_breakdown[k].value > 0
    /\ ret.value.income > 0
    /\ IndicesInMonth(transactions, ret.args[1], ret.args[2])
          # 1..Len(transactions)

(* What does hold of the code: on amounts that are whole numbers of units  *)
(* get_balance returns the sum of the INCOME amounts minus the sum of the  *)
(* EXPENSE amounts, and the same value for every permutation of the stored *)
(* transactions.                                                           *)
BalanceOrderFreeOnWholeUnits ==
    ret.op = "get_balance" =>
        /\ ret.value = SumAmounts(transactions, IndicesOfType(transactions, INCOME))
                     - SumAmounts(transactions, IndicesOfType(transactions, EXPENSE))
        /\ \A p \in Permutations(1..Len(transactions)) :
              GetBalanceOf(Permuted(transactions, p)) = ret.value

(* A balance over three transactions of both types, an expense first, that *)
(* an order-dependent computation would get wrong.                         *)
BalanceOfThreeWholeUnits ==
    /\ ret.op = "get_balance"
    /\ Len(transactions) >= 3
    /\ transactions[1].transaction_type = EXPENSE
    /\ transactions[1].amount > 0
    /\ \E i \in 2..Len(transactions) :
          transactions[i].transaction_type = INCOME /\ transactions[i].amount > 0
    /\ ret.value # 0

(* C10: get_balance returns the same value for every permutation of the    *)
(* stored transactions; here on amounts of ten, twenty and thirty cents of *)
(* a unit.                                                                 *)
C10_SameForEveryOrder ==
    ret.op = "get_balance" =>
        \A p \in Permutations(1..Len(transactions)) :
            GetBinary64BalanceOf(Permuted(transactions, p)) = ret.value

----------------------------------------------------------------------------
(* The ledger's queries.                                                   *)

Deficit(c) == c.current_spent - c.monthly_limit
Surplus(c) == c.monthly_limit - c.current_spent
Overspent(c) == c.current_spent > c.monthly_limit
Underspent(c) == 10 * c.current_spent < 7 * c.monthly_limit

(* C4: for every category with monthly_limit > 0, get_budget_status        *)
(* reports remaining = limit - spent and percentage_used = spent / limit * *)
(* 100, and the alert level is green exactly when percentage_used <= 75,   *)
(* yellow exactly when 75 < percentage_used <= 90, red exactly when        *)
(* percentage_used > 90.                                                   *)
TiersRight(c, e) ==
    /\ e.name = c.name
    /\ e.remaining = c.monthly_limit - c.current_spent
    /\ e.percentage_used.num = 100 * c.current_spent
    /\ e.percentage_used.den = c.monthly_limit
    /\ e.alert_level = "green" <=> 4 * c.current_spent <= 3 * c.monthly_limit
    /\ e.alert_level = "yellow" <=>
          /\ 4 * c.current_spent > 3 * c.monthly_limit
          /\ 10 * c.current_spent <= 9 * c.monthly_limit
    /\ e.alert_level = "red" <=> 10 * c.current_spent > 9 * c.monthly_limit

C4_StatusTiers ==
    ret.op = "get_budget_status" =>
        \A i \in 1..Len(categories) :
            categories[i].monthly_limit > 0 =>
                /\ ret.raised = ""
                /\ TiersRight(categories[i], ret.value[i])

(* What does hold of the code: whenever get_budget_status returns at all,  *)
(* the entries of the categories with a positive limit are right.          *)
StatusTiersWhenReturned ==
    (ret.op = "get_budget_status" /\ ret.raised = "") =>
        \A i \in 1..Len(categories) :
            categories[i].monthly_limit > 0 =>
                TiersRight(categories[i], ret.value[i])

(* The boundaries are met: 15 of 20 is green, 16 of 20 yellow, 18 of 20    *)
(* yellow and 19 of 20 red.                                                *)
StatusTiersBoundaries ==
    /\ ret.op = "get_budget_status"
    /\ ret.raised = ""
    /\ \E i, j, k \in 1..Len(categories) :
          /\ categories[i].current_spent = 15 /\ ret.value[i].alert_level = "green"
          /\ categories[j].current_spent = 16 /\ ret.value[j].alert_level = "yellow"
          /\ categories[k].current_spent = 19 /\ ret.value[k].alert_level = "red"

(* C5: suggest_reallocation returns at most one suggestion per overspent   *)
(* category and none for any other; an overspent category gets one exactly *)
(* when some underspent category has a surplus >= its deficit; the         *)
(* suggestion gives the deficit as the amount and names the first such     *)
(* category in descending-surplus order (insertion order among equal       *)
(* surpluses); the ledger is left as it was.                               *)
C5_Suggestions ==
    ret.op = "suggest_reallocation" =>
        LET given == ret.value
            Donors(c) == {d \in 1..Len(categories) :
                            /\ Underspent(categories[d])
                            /\ Surplus(categories[d]) >= Deficit(c)}
            First(D) == CHOOSE d \in D : \A e \in D :
                            \/ Surplus(categories[e]) < Surplus(categories[d])
                            \/ (Surplus(categories[e]) = Surplus(categories[d])
                                /\ e >= d)
        IN /\ ret.raised = ""
           /\ \A j, k \in 1..Len(given) :
                 given[j].category = given[k].category => j = k
           /\ \A i \in 1..Len(categories) :
                 LET c == categories[i]
                     mine == {j \in 1..Len(given) : given[j].category = c.name}
                 IN /\ mine # {} <=> (Overspent(c) /\ Donors(c) # {})
                    /\ \A j \in mine :
                          /\ given[j].amount.units = Deficit(c)
                          /\ given[j].amount.hundredths = 0
                          /\ given[j].from = categories[First(Donors(c))].name
           /\ \A j \in 1..Len(given) : given[j].category \in Names(categories)

(* Two overspent categories are pointed at the same donor in one call.     *)
C5_Witness ==
    /\ ret.op = "suggest_reallocation"
    /\ Len(ret.value) = 2
    /\ ret.value[1].from = ret.value[2].from
    /\ ret.value[1].amount # ret.value[2].amount

(* suggest_reallocation never changes the ledger.                          *)
C5_LedgerKept ==
    [][ret'.op = "suggest_reallocation" => categories' = categories]_vars

(* C12: in one call of suggest_reallocation every suggestion names the     *)
(* same donor, the underspent category with the largest surplus (the       *)
(* earliest inserted among equal surpluses); an overspent category gets a  *)
(* suggestion exactly when its deficit is <= that largest surplus; no      *)
(* other underspent category is ever named.                                *)
C12_OneDonor ==
    ret.op = "suggest_reallocation" =>
        LET given == ret.value
            U == {d \in 1..Len(categories) : Underspent(categories[d])}
            largest == CHOOSE d \in U : \A e \in U :
                            \/ Surplus(categories[e]) < Surplus(categories[d])
                            \/ (Surplus(categories[e]) = Surplus(categories[d])
                                /\ e >= d)
        IN /\ ret.raised = ""
           /\ \A j, k \in 1..Len(given) : given[j].from = given[k].from
           /\ given # <<>> => U # {}
           /\ \A j \in 1..Len(given) :
                 /\ given[j].from = categories[largest].name
                 /\ \A d \in U \ {largest} :
                        given[j].from # categories[d].name
           /\ \A i \in 1..Len(categories) :
                 LET c == categories[i]
                 IN (\E j \in 1..Len(given) : given[j].category = c.name)
                        <=> /\ Overspent(c)
                            /\ U # {}
                            /\ Deficit(c) <= Surplus(categories[largest])

(* Two underspent categories could both cover the deficit; the one         *)
(* inserted later has the larger surplus and is the one named.             *)
C12_Witness ==
    /\ ret.op = "suggest_reallocation"
    /\ Len(ret.value) = 1
    /\ \E d, e, i \in 1..Len(categories) :
          /\ d < e
          /\ Underspent(categories[d]) /\ Underspent(categories[e])
          /\ Surplus(categories[d]) < Surplus(categories[e])
          /\ Overspent(categories[i])
          /\ Deficit(categories[i]) <= Surplus(categories[d])
          /\ ret.value[1].category = categories[i].name
          /\ ret.value[1].from = categories[e].name

(* An overspent category whose deficit no surplus covers gets nothing,     *)
(* while another one in the same call is served.                           *)
C12_SomeLeftOut ==
    /\ ret.op = "suggest_reallocation"
    /\ Len(ret.value) = 1
    /\ \E i \in 1..Len(categories) :
          /\ Overspent(categories[i])
          /\ \A j \in 1..Len(ret.value) :
                ret.value[j].category # categories[i].name

----------------------------------------------------------------------------
(* The health scorer.                                                      *)

(* C6: for income >= 0 and any expenses and savings the score is an        *)
(* integer in [0, 100]; with income = 0 the result is score 0, grade F and *)
(* the one recommendation "Increase income sources".                       *)
C6_ScoreBounded ==
    ret.op = "get_financial_health_score" =>
        /\ ret.raised = ""
        /\ ret.value.score \in 0..100
        /\ ret.args[1] = 0 =>
              ret.value = [score |-> 0, grade |-> "F",
                           recommendations |-> <<"Increase income sources">>]

(* The call was made with no income, but with expenses and savings.        *)
C6_Witness ==
    /\ ret.op = "get_financial_health_score"
    /\ ret.args[1] = 0 /\ ret.args[2] > 0 /\ ret.args[3] > 0
    /\ ret.value.score = 0

(* Both ends of the range are scored: 0 and 100 with income > 0.           *)
ScoreReachesBothEnds ==
    /\ ret.op = "get_financial_health_score"
    /\ ret.args[1] > 0
    /\ ret.value.score \in {0, 100}

(* C7: for income > 0 the score is the sum of the three components, and    *)
(* the grade is the letter of the one band that holds the score.           *)
Bands ==
    {<<90, 100, "A+">>, <<80, 89, "A">>, <<70, 79, "B">>,
     <<60, 69, "C">>, <<50, 59, "D">>, <<0, 49, "F">>}

C7_ScoreAndGrade ==
    (ret.op = "get_financial_health_score" /\ ret.args[1] > 0) =>
        LET income == ret.args[1]
            expenses == ret.args[2]
            savings == ret.args[3]
            bySavings == IF 5 * savings >= income THEN 40
                         ELSE IF 10 * savings >= income THEN 25
                         ELSE IF 20 * savings >= income THEN 15 ELSE 0
            byExpenses == IF 2 * expenses <= income THEN 30
                          ELSE IF 10 * expenses <= 7 * income THEN 20
                          ELSE IF 10 * expenses <= 9 * income THEN 10 ELSE 0
            byFund == IF expenses <= 0 THEN 0
                      ELSE IF 2 * savings >= expenses THEN 30
                      ELSE IF 4 * savings >= expenses THEN 20
                      ELSE IF 12 * savings >= expenses THEN 10 ELSE 0
            holding == {b \in Bands : b[1] <= ret.value.score
                                       /\ ret.value.score <= b[2]}
        IN /\ ret.raised = ""
           /\ ret.value.score = bySavings + byExpenses + byFund
           /\ Cardinality(holding) = 1
           /\ \A b \in holding : ret.value.grade = b[3]
           /\ (expenses <= 0) => ret.value.emergency_fund_months.num = 0

(* Income 5, expenses 3, savings 2 (thousands): score 90, grade A+.        *)
C7_Witness ==
    /\ ret.op = "get_financial_health_score"
    /\ ret.args = <<5, 3, 2>>
    /\ ret.value.score = 90
    /\ ret.value.grade = "A+"

====
